---- MODULE Spec2Model ----
(***************************************************************************)
(* Model of intake/catalog/server.py: the "source" resource of the intake  *)
(* catalog server (ServerSourceHandler.post), its module-level session     *)
(* table OPEN_SOURCES, the encoder selection _pick_encoder and the error   *)
(* path write_error, run by tornado's single-threaded IOLoop: a coroutine  *)
(* runs without interruption between two `yield`s.                         *)
(***************************************************************************)
EXTENDS Integers, Sequences, FiniteSets, TLC

\* ------------------------------------------------------------------------
\* Bounds of the model
\* ------------------------------------------------------------------------
\* number of request handlers (requests in flight or just answered)
MaxHandlers == 2
\* number of sessions the registry may hold (uuid4 values drawn)
MaxSessions == 2
\* number of chunks / partitions of the largest source
MaxChunks == 2
\* longest accepted_formats / accepted_compression list
MaxAccepted == 2

Handlers == 1 .. MaxHandlers
IdPool == 1 .. MaxSessions
\* a source_id a client may send: any uuid, or 0 which is never issued
SourceIds == 0 .. MaxSessions

RECURSIVE SeqsUpTo(_, _)
SeqsUpTo(S, n) ==
    IF n = 0 THEN {<<>>}
    ELSE LET shorter == SeqsUpTo(S, n - 1)
         IN  shorter \cup {Append(s, x) : s \in {t \in shorter : Len(t) = n - 1}, x \in S}

\* ------------------------------------------------------------------------
\* Collaborators: the local catalog, the sources it opens, the serializer
\* ------------------------------------------------------------------------
Plugins == {"p1", "p2"}

\* what local_catalog.describe_open answers for the entries it knows
Catalog ==
    [e_forbid |-> [direct_access |-> "forbid", plugin |-> "p1",
                   container |-> "dataframe", npartitions |-> MaxChunks],
     e_allow  |-> [direct_access |-> "allow", plugin |-> "p1",
                   container |-> "ndarray", npartitions |-> 1],
     e_force  |-> [direct_access |-> "force", plugin |-> "p2",
                   container |-> "dataframe", npartitions |-> 1]]

\* names a client may ask for: the catalog's entries and one it does not have
RequestNames == DOMAIN Catalog \cup {"e_missing"}

describe_open(entry_name) ==
    [direct_access |-> Catalog[entry_name].direct_access,
     plugin |-> Catalog[entry_name].plugin,
     args |-> <<"args", entry_name>>,
     description |-> <<"description", entry_name>>]

\* the chunk that partition p of source object oid holds
Chunk(oid, p) == [src |-> oid, part |-> p]

\* source.read_chunked(): the chunks of the source, in partition order
read_chunked(oid, src) == [i \in 1 .. Catalog[src.name].npartitions |-> Chunk(oid, i - 1)]

\* source.read_partition(partition)
read_partition(oid, partition) == Chunk(oid, partition)

\* serializer.format_registry / compression_registry: name -> encoder object
format_registry == [f \in {"fa", "fb"} |-> [name |-> f, stage |-> "format"]]
compression_registry == [c \in {"none", "gz"} |-> [name |-> c, stage |-> "compression"]]
NoneCompressor == [name |-> "none", stage |-> "compression"]

\* names a client may list: the registered ones and an unregistered one
FormatNames == DOMAIN format_registry \cup {"fx"}
CompressionNames == DOMAIN compression_registry \cup {"cx"}

\* Python's None where an encoder object is expected
None == [name |-> "", stage |-> "None"]

ComboSerializer(format_encoder, compressor) ==
    [format_name |-> format_encoder.name, compressor_name |-> compressor.name]

\* ComboSerializer.encode: serialize by container, then compress
encode(chunk_encoder, chunk, container) ==
    [compressed_by |-> chunk_encoder.compressor_name,
     serialized_by |-> chunk_encoder.format_name,
     container |-> container, chunk |-> chunk]

\* ------------------------------------------------------------------------
\* Exceptions and tornado's handling of them
\* ------------------------------------------------------------------------
NoExc == [type |-> "", status_code |-> 0, has_reason |-> FALSE, reason |-> <<>>]

HTTPError(status_code, reason) ==
    [type |-> "HTTPError", status_code |-> status_code, has_reason |-> TRUE, reason |-> reason]

\* OPEN_SOURCES[source_id] on a missing key; a KeyError has no attribute `reason`
KeyError(key) ==
    [type |-> "KeyError", status_code |-> 0, has_reason |-> FALSE, reason |-> <<>>]

\* an exception of the catalog or of a source driver (KeyError, IOError,
\* ValueError, ...): like them it has no attribute `reason`
UpstreamErrors ==
    {[type |-> "UpstreamError", status_code |-> 0, has_reason |-> FALSE, reason |-> <<>>]}

Failures == {NoExc} \cup UpstreamErrors

\* ServerSourceHandler.write_error: the messages it writes.  Reading .reason
\* of an exception without it raises inside write_error and nothing is written.
write_error(exc) ==
    IF exc.type # ""
    THEN IF exc.has_reason THEN <<[error |-> exc.reason]>> ELSE <<>>
    ELSE <<[error |-> <<"unknown error">>]>>

\* ------------------------------------------------------------------------
\* ServerSourceHandler._pick_encoder
\* ------------------------------------------------------------------------
\* (variant: the first registered name wins)
RECURSIVE pick_loop_first(_, _, _)
pick_loop_first(accepted, registry, current) ==
    IF accepted = <<>> THEN current
    ELSE IF Head(accepted) \in DOMAIN registry
         THEN registry[Head(accepted)]
         ELSE pick_loop_first(Tail(accepted), registry, current)

\* `for f in accepted: if f in registry: current = registry[f]`
RECURSIVE pick_loop(_, _, _)
pick_loop(accepted, registry, current) ==
    IF accepted = <<>> THEN current
    ELSE pick_loop(Tail(accepted), registry,
                   IF Head(accepted) \in DOMAIN registry
                   THEN registry[Head(accepted)] ELSE current)

NoEncoder == [format_name |-> "", compressor_name |-> ""]

\* (variant: an accepted_compression without a registered name is an error too)
_pick_encoder_strict(accepted_formats, accepted_compression, container) ==
    LET format_encoder == pick_loop(accepted_formats, format_registry, None)
        compressor == pick_loop(accepted_compression, compression_registry, None)
    IN  IF format_encoder = None \/ compressor = None
        THEN [exc |-> HTTPError(400, <<"Unable to find compatible format">>),
              encoder |-> NoEncoder]
        ELSE [exc |-> NoExc, encoder |-> ComboSerializer(format_encoder, compressor)]

\* (variant: without a registered format the first registered one is used)
_pick_encoder_default_format(accepted_formats, accepted_compression, container) ==
    LET format_encoder == pick_loop(accepted_formats, format_registry, format_registry["fa"])
        compressor == pick_loop(accepted_compression, compression_registry, NoneCompressor)
    IN  [exc |-> NoExc, encoder |-> ComboSerializer(format_encoder, compressor)]

\* the result of a call: the exception it raises, or the encoder it returns
_pick_encoder(accepted_formats, accepted_compression, container) ==
    LET format_encoder == pick_loop(accepted_formats, format_registry, None)
        compressor == pick_loop(accepted_compression, compression_registry, NoneCompressor)
    IN  IF format_encoder = None
        THEN [exc |-> HTTPError(400, <<"Unable to find compatible format">>),
              encoder |-> NoEncoder]
        ELSE [exc |-> NoExc, encoder |-> ComboSerializer(format_encoder, compressor)]

\* request.get('accepted_compression', ['none']); Omitted: the key is absent
Omitted == <<"<omitted>">>
get_accepted_compression(field) == IF field = Omitted THEN <<"none">> ELSE field

\* ------------------------------------------------------------------------
\* State
\* ------------------------------------------------------------------------
VARIABLES
    OPEN_SOURCES,   \* the module-level dict: source_id -> ClientState
    sources,        \* the source objects Catalog.get has returned and that are still referenced
    handlers,       \* the request handler instances: the request, the locals and
                    \* attributes of post(), and the response so far
    returned,       \* history: what each successful proxied open sent back, in order
    picked          \* the last direct call of _pick_encoder: its arguments and result

vars == <<OPEN_SOURCES, sources, handlers, returned, picked>>

\* (variant: the entry is bound to the first source object, not to this one)
ClientState_first_source(source_id, source) == [source_id |-> source_id, source |-> 1]

ClientState(source_id, source) == [source_id |-> source_id, source |-> source]
NoState == [source_id |-> 0, source |-> 0]

\* partition = None
NoPartition == -1
Partitions == 0 .. (MaxChunks - 1)

\* a handler instance before its request
IdleHandler ==
    [pc |-> "idle",             \* idle, flushing (suspended in `yield self.flush()`),
                                \* runnable (the flush is complete), done (finished)
     action |-> "", name |-> "", client_plugins |-> {},
     source_id |-> 0, partition |-> NoPartition,
     accepts |-> [accepted_formats |-> <<>>, accepted_compression |-> <<>>],
     access |-> "",             \* the branch an open took: Proxied, Rejected, Direct
     source |-> 0,              \* the local `source` of an open
     state |-> NoState,         \* the local `state` of a read
     calls |-> {},              \* the catalog / source methods called so far
     _chunk_encoder |-> NoEncoder, _iterator |-> <<>>, _container |-> "",
     status |-> 200, out |-> <<>>,
     headers_written |-> FALSE,
     flushed |-> 0,             \* how many written messages a completed flush covers
     exc |-> NoExc]             \* the exception that escaped post(), if any

Init ==
    /\ OPEN_SOURCES = <<>>
    /\ sources = <<>>
    /\ handlers = [h \in Handlers |-> IdleHandler]
    /\ returned = <<>>
    /\ picked = [called |-> FALSE, accepted_formats |-> <<>>,
                 accepted_compression |-> <<>>, result |-> [exc |-> NoExc, encoder |-> NoEncoder]]

\* a handler slot takes a new request when it holds none or a finished one
Free(h) == handlers[h].pc \in {"idle", "done"}

\* (variant: the response is flushed but not ended)
finish_not_ending(r) == [r EXCEPT !.flushed = Len(r.out), !.headers_written = TRUE]

\* RequestHandler.finish(): whatever is written goes out and the response ends
finish(r) == [r EXCEPT !.pc = "done", !.flushed = Len(r.out), !.headers_written = TRUE]

\* tornado, when exc escapes post(): send_error.  Once headers are out only the
\* response is ended; otherwise the response is cleared, the status set and
\* write_error called (an exception inside write_error is logged and dropped).
send_error(r, exc) ==
    IF r.headers_written
    THEN finish([r EXCEPT !.exc = exc])
    ELSE finish([r EXCEPT !.exc = exc,
                          !.status = IF exc.type = "HTTPError" THEN exc.status_code ELSE 500,
                          !.out = write_error(exc)])

\* (variant: an identifier that may repeat)
uuid4_repeating == IdPool

\* str(uuid.uuid4()): a value no earlier call returned
uuid4 == IdPool \ DOMAIN OPEN_SOURCES

\* (variant: forbid looks at the client's plugins like allow does)
Negotiate_forbid_checks_plugin(direct_access, client_has_plugin) ==
    IF (direct_access = "forbid" \/ direct_access = "allow") /\ ~client_has_plugin
    THEN "Proxied"
    ELSE IF direct_access = "force" /\ ~client_has_plugin
         THEN "Rejected"
         ELSE "Direct"

\* (variant: allow always proxies)
Negotiate_allow_proxies(direct_access, client_has_plugin) ==
    IF direct_access = "forbid" \/ direct_access = "allow"
    THEN "Proxied"
    ELSE IF direct_access = "force" /\ ~client_has_plugin
         THEN "Rejected"
         ELSE "Direct"

\* the access decision of post(), lines 59-81
Negotiate(direct_access, client_has_plugin) ==
    IF direct_access = "forbid" \/ (direct_access = "allow" /\ ~client_has_plugin)
    THEN "Proxied"
    ELSE IF direct_access = "force" /\ ~client_has_plugin
         THEN "Rejected"
         ELSE "Direct"

\* (variant: the assignment rebuilds the dict with the one key)
dict_replace(dict, key, value) == [k \in {key} |-> value]

\* OPEN_SOURCES[key] = value
dict_set(dict, key, value) ==
    [k \in DOMAIN dict \cup {key} |-> IF k = key THEN value ELSE dict[k]]

\* the object local_catalog.get(entry_name, **user_parameters) returns: a new one
catalog_get(entry_name) == [name |-> entry_name, discovered |-> FALSE]

\* source.discover()
discover(src) == [src EXCEPT !.discovered = TRUE]

\* a finished handler instance is released when the next request finishes:
\* only the latest finished response is kept for inspection
release(hs) == [h \in DOMAIN hs |-> IF hs[h].pc = "done" THEN IdleHandler ELSE hs[h]]

\* handler h goes on as r
become(h, r) ==
    handlers' = [(IF r.pc = "done" THEN release(handlers) ELSE handlers) EXCEPT ![h] = r]

\* ------------------------------------------------------------------------
\* post(), action == 'open' (lines 48-81).  No yield: one step.
\* The catalog and the source may raise (an UpstreamError) where they are called.
\* ------------------------------------------------------------------------
OpenResponse(oid, src, source_id) ==
    [container |-> Catalog[src.name].container,
     npartitions |-> Catalog[src.name].npartitions,
     source_id |-> source_id]

DirectResponse(plugin_name, open_desc) ==
    [plugin |-> plugin_name, args |-> open_desc.args, description |-> open_desc.description]

\* (variant: the rejection names the plugin only)
RejectedError_no_source(plugin_name, entry_name) ==
    HTTPError(400, <<"client must have plugin", plugin_name>>)

\* lines 73-76: the error of force without the plugin
RejectedError(plugin_name, entry_name) ==
    HTTPError(400, <<"client must have plugin", plugin_name,
                     "to access source", entry_name>>)

\* (variant: the session is registered before discover() is called)
ProxiedStatements_register_first == <<"get", "register", "discover", "respond">>

\* the statements of the proxied branch in program order: line 61, line 62,
\* lines 63-64, lines 66-71
ProxiedStatements == <<"get", "discover", "register", "respond">>

\* the effect of one statement on st: the handler r, its locals source (the
\* object, known as oid) and source_id, and the globals
exec(stmt, st) ==
    CASE stmt = "get" ->
            [st EXCEPT !.r.calls = @ \cup {"get"}, !.source = catalog_get(st.r.name)]
      [] stmt = "discover" ->
            [st EXCEPT !.r.calls = @ \cup {"discover"}, !.source = discover(@)]
      [] stmt = "register" ->
            [st EXCEPT !.OPEN_SOURCES = dict_set(@, st.source_id,
                                                 ClientState(st.source_id, st.oid))]
      [] stmt = "respond" ->
            [st EXCEPT !.returned = Append(@, [source_id |-> st.source_id, source |-> st.oid]),
                       !.r = finish([@ EXCEPT !.source = st.oid, !.source_id = st.source_id,
                                              !.out = <<OpenResponse(st.oid, st.source,
                                                                     st.source_id)>>])]

\* run the statements in order; the call named `failing`, if any, raises
\* `fail` and post() is left there
RECURSIVE run(_, _, _, _)
run(stmts, st, failing, fail) ==
    IF stmts = <<>> THEN st
    ELSE IF Head(stmts) = failing
         THEN [st EXCEPT !.r = send_error([st.r EXCEPT !.calls = @ \cup {failing}], fail)]
         ELSE run(Tail(stmts), exec(Head(stmts), st), failing, fail)

PostOpen(h, entry_name, client_plugins) ==
    /\ Free(h)
    /\ UNCHANGED picked
    /\ LET req == [IdleHandler EXCEPT !.action = "open", !.name = entry_name,
                                      !.client_plugins = client_plugins,
                                      !.calls = {"describe_open"}]
       IN
       IF entry_name \notin DOMAIN Catalog
       THEN \* describe_open raises for a name the catalog does not have
            /\ \E fail \in UpstreamErrors : become(h, send_error(req, fail))
            /\ UNCHANGED <<OPEN_SOURCES, sources, returned>>
       ELSE
       LET open_desc == describe_open(entry_name)
           direct_access == open_desc.direct_access
           plugin_name == open_desc.plugin
           client_has_plugin == plugin_name \in client_plugins
           access == Negotiate(direct_access, client_has_plugin)
           r1 == [req EXCEPT !.access = access]
       IN
       CASE access = "Proxied" ->
              \E failing \in {"", "get", "discover"}, source_id \in IdPool :
                 \* the identifier is one uuid4 can return; when a call raises
                 \* before line 63 it is never drawn and any one stands for it
                 /\ source_id \in (IF failing = "" \/ uuid4 # {} THEN uuid4 ELSE IdPool)
                 /\ \E fail \in (IF failing = "" THEN {NoExc} ELSE UpstreamErrors) :
                    LET st == run(ProxiedStatements,
                                  [r |-> r1, oid |-> Len(sources) + 1,
                                   source |-> catalog_get(entry_name),
                                   source_id |-> source_id,
                                   OPEN_SOURCES |-> OPEN_SOURCES, returned |-> returned],
                                  failing, fail)
                    IN  /\ OPEN_SOURCES' = st.OPEN_SOURCES
                        /\ returned' = st.returned
                        \* the object stays referenced once the registry holds it
                        /\ sources' = IF st.OPEN_SOURCES # OPEN_SOURCES
                                      THEN Append(sources, st.source) ELSE sources
                        /\ become(h, st.r)
         [] access = "Rejected" ->
              /\ become(h, send_error(r1, RejectedError(plugin_name, entry_name)))
              /\ UNCHANGED <<OPEN_SOURCES, sources, returned>>
         [] OTHER ->
              /\ become(h, finish([r1 EXCEPT !.out = <<DirectResponse(plugin_name, open_desc)>>]))
              /\ UNCHANGED <<OPEN_SOURCES, sources, returned>>

\* ------------------------------------------------------------------------
\* post(), action == 'read' (lines 83-107)
\* ------------------------------------------------------------------------
\* (variant: the encoder is an attribute shared by all handler instances, set
\* by whichever read picked last)
Frame_shared_encoder(r, chunk) ==
    LET holders == {h \in Handlers : handlers[h]._chunk_encoder # NoEncoder}
        shared == IF holders = {} THEN r._chunk_encoder
                  ELSE handlers[CHOOSE h \in holders : \A g \in holders : g <= h]._chunk_encoder
    IN  [format |-> shared.format_name,
         compression |-> shared.compressor_name,
         container |-> r._container,
         data |-> encode(shared, chunk, r._container)]

Frame(r, chunk) ==
    [format |-> r._chunk_encoder.format_name,
     compression |-> r._chunk_encoder.compressor_name,
     container |-> r._container,
     data |-> encode(r._chunk_encoder, chunk, r._container)]

\* one pass of `for chunk in self._iterator` up to `yield self.flush()`, or
\* self.finish() when the iterator is exhausted; `fail` is what the iterator
\* or encode raises while the chunk is produced, if anything
loop_step(r, fail) ==
    IF r._iterator = <<>>
    THEN finish(r)
    ELSE IF fail # NoExc
         THEN send_error(r, fail)
         ELSE [r EXCEPT !._iterator = Tail(@),
                        !.out = Append(@, Frame(r, Head(r._iterator))),
                        !.headers_written = TRUE,
                        !.pc = "flushing"]

\* what may happen in a pass of the loop: nothing is raised where nothing is produced
LoopFailures(r) == IF r._iterator = <<>> THEN {NoExc} ELSE Failures

\* the requests of the model: the accepted_formats and accepted_compression
\* a read may carry
ReadAccepts ==
    {[accepted_formats |-> <<"fb", "fa">>, accepted_compression |-> Omitted],
     [accepted_formats |-> <<"fa", "fb">>, accepted_compression |-> <<"cx", "gz">>],
     [accepted_formats |-> <<"fx">>, accepted_compression |-> <<"gz">>]}

\* (variant: `if partition:`, which takes partition 0 for no partition)
has_partition_truthy(partition) == partition > 0

\* line 93: `partition is not None`
has_partition(partition) == partition # NoPartition

\* (variant: a read goes on with the iterator another read of the same source
\* has in use)
make_iterator_shared(state, src, partition) ==
    LET users == {h \in Handlers : /\ handlers[h].pc \in {"flushing", "runnable"}
                                   /\ handlers[h].state = state}
    IN  IF users # {} THEN handlers[CHOOSE h \in users : TRUE]._iterator
        ELSE IF has_partition(partition)
             THEN <<read_partition(state.source, partition)>>
             ELSE read_chunked(state.source, src)

\* lines 93-96: the iterator of this request, a new one from the source
make_iterator(state, src, partition) ==
    IF has_partition(partition)
    THEN <<read_partition(state.source, partition)>>
    ELSE read_chunked(state.source, src)

\* (variant: the lookup ignores the key)
lookup_any(source_id) == OPEN_SOURCES[CHOOSE k \in DOMAIN OPEN_SOURCES : TRUE]

\* state = OPEN_SOURCES[source_id], for a key the dict has
lookup(source_id) == OPEN_SOURCES[source_id]

PostRead(h, source_id) ==
    /\ Free(h)
    /\ UNCHANGED <<OPEN_SOURCES, sources, returned, picked>>
    /\ LET req == [IdleHandler EXCEPT !.action = "read", !.source_id = source_id]
       IN
       IF source_id \notin DOMAIN OPEN_SOURCES
       THEN become(h, send_error(req, KeyError(source_id)))
       ELSE
       \E accepts \in ReadAccepts :
       LET accepted_formats == accepts.accepted_formats
           compression_field == accepts.accepted_compression
           state == lookup(source_id)
           src == sources[state.source]
           container == Catalog[src.name].container
           accepted_compression == get_accepted_compression(compression_field)
           pick == _pick_encoder(accepted_formats, accepted_compression, container)
           r1 == [req EXCEPT !.state = state, !.accepts = accepts]
       IN
       IF pick.exc # NoExc
       THEN become(h, send_error(r1, pick.exc))
       ELSE
       \E partition \in {NoPartition} \cup Partitions :
       LET r2 == [r1 EXCEPT !._chunk_encoder = pick.encoder, !.partition = partition]
       IN
       IF has_partition(partition)
       THEN LET r3 == [r2 EXCEPT !.calls = @ \cup {"read_partition"}]
                r4 == [r3 EXCEPT !._iterator = make_iterator(state, src, partition),
                                 !._container = container]
            IN
            \/ \E fail \in UpstreamErrors : become(h, send_error(r3, fail))
            \/ /\ partition < Catalog[src.name].npartitions
               /\ \E fail \in LoopFailures(r4) : become(h, loop_step(r4, fail))
       ELSE LET r3 == [r2 EXCEPT !.calls = @ \cup {"read_chunked"}]
                r4 == [r3 EXCEPT !._iterator = make_iterator(state, src, partition),
                                 !._container = container]
            IN
            \E fail \in LoopFailures(r4) : become(h, loop_step(r4, fail))

\* the IOLoop completes the flush a handler is suspended on
FlushDone(h) ==
    /\ handlers[h].pc = "flushing"
    /\ handlers' = [handlers EXCEPT ![h].pc = "runnable", ![h].flushed = Len(handlers[h].out)]
    /\ UNCHANGED <<OPEN_SOURCES, sources, returned, picked>>

\* (variant: flush() is called without `yield`)
CanResume_no_yield(r) == r.pc \in {"flushing", "runnable"}

\* `yield self.flush()`: the coroutine goes on only once its flush is complete
CanResume(r) == r.pc = "runnable"

Resume(h) ==
    /\ CanResume(handlers[h])
    /\ \E fail \in LoopFailures(handlers[h]) : become(h, loop_step(handlers[h], fail))
    /\ UNCHANGED <<OPEN_SOURCES, sources, returned, picked>>

\* ------------------------------------------------------------------------
\* post(), any other action (lines 109-113)
\* ------------------------------------------------------------------------
OtherActions == {"close"}

\* (variant: the message does not say which action)
InvalidActionError_anonymous(action) == HTTPError(400, <<"not a valid source action">>)

\* lines 110-113
InvalidActionError(action) == HTTPError(400, <<action, "not a valid source action">>)

PostInvalid(h, action) ==
    /\ Free(h)
    /\ become(h, send_error([IdleHandler EXCEPT !.action = action],
                            InvalidActionError(action)))
    /\ UNCHANGED <<OPEN_SOURCES, sources, returned, picked>>

Next ==
    \/ \E h \in Handlers, entry_name \in RequestNames, client_plugins \in SUBSET Plugins :
            PostOpen(h, entry_name, client_plugins)
    \/ \E h \in Handlers, source_id \in SourceIds : PostRead(h, source_id)
    \/ \E h \in Handlers : FlushDone(h)
    \/ \E h \in Handlers : Resume(h)
    \/ \E h \in Handlers, action \in OtherActions : PostInvalid(h, action)

Spec == Init /\ [][Next]_vars

\* the IOLoop completes every flush it was asked for and runs every coroutine
\* whose flush is complete
Fairness == \A h \in Handlers : WF_vars(FlushDone(h)) /\ WF_vars(Resume(h))

SpecFair == Spec /\ Fairness

\* ------------------------------------------------------------------------
\* _pick_encoder on its own: every pair of lists up to MaxAccepted names,
\* and the request that leaves accepted_compression out
\* ------------------------------------------------------------------------
Pick(accepted_formats, compression_field) ==
    /\ picked' = [called |-> TRUE, accepted_formats |-> accepted_formats,
                  accepted_compression |-> compression_field,
                  result |-> _pick_encoder(accepted_formats,
                                           get_accepted_compression(compression_field),
                                           "dataframe")]
    /\ UNCHANGED <<OPEN_SOURCES, sources, handlers, returned>>

NextPick ==
    \E accepted_formats \in SeqsUpTo(FormatNames, MaxAccepted),
       compression_field \in SeqsUpTo(CompressionNames, MaxAccepted) \cup {Omitted} :
        Pick(accepted_formats, compression_field)

SpecPick == Init /\ [][NextPick]_vars

\* ========================================================================
\* Properties
\* ========================================================================
\* the truth table of the access policies, case by case
TruthTable(policy, has_plugin) ==
    CASE policy = "forbid" /\ has_plugin  -> "Proxied"
      [] policy = "forbid" /\ ~has_plugin -> "Proxied"
      [] policy = "allow"  /\ ~has_plugin -> "Proxied"
      [] policy = "force"  /\ ~has_plugin -> "Rejected"
      [] policy = "allow"  /\ has_plugin  -> "Direct"
      [] policy = "force"  /\ has_plugin  -> "Direct"

\* what an open with these fields should resolve to
Expected(r) ==
    TruthTable(Catalog[r.name].direct_access, Catalog[r.name].plugin \in r.client_plugins)

\* the outcome of an open as its response shows it
Outcome(r) ==
    IF r.status = 400 THEN "Rejected"
    ELSE IF r.status = 200 /\ Len(r.out) = 1 /\ "source_id" \in DOMAIN r.out[1] THEN "Proxied"
    ELSE IF r.status = 200 /\ Len(r.out) = 1 /\ "plugin" \in DOMAIN r.out[1] THEN "Direct"
    ELSE "Failed"

IsOpen(r) == r.action = "open" /\ r.name \in DOMAIN Catalog

\* C1: an open of a catalog entry resolves as the six-case truth table says
\* (forbid -> Proxied with or without the plugin, allow without -> Proxied,
\* force without -> Rejected, allow/force with -> Direct), and its response is
\* the one of that outcome unless the catalog or the source raised while the
\* proxied source was opened.
C1_TruthTable ==
    \A h \in Handlers :
        LET r == handlers[h] IN
        IsOpen(r) =>
            /\ r.access = Expected(r)
            /\ \/ Outcome(r) = Expected(r)
               \/ Expected(r) = "Proxied" /\ r.exc.type = "UpstreamError" /\ Outcome(r) = "Failed"

C1_Witness ==
    \E h \in Handlers :
        LET r == handlers[h] IN
        /\ IsOpen(r) /\ r.pc = "done"
        /\ Catalog[r.name].direct_access = "forbid"
        /\ Catalog[r.name].plugin \in r.client_plugins
        /\ Outcome(r) = "Proxied"

\* C2: a read whose source_id is not a key of the registry is answered with a
\* 400-class status and one {error: message} whose message is not empty; it
\* emits no frame and reads no source.
C2_UnknownSourceIdIsClientError ==
    \A h \in Handlers :
        LET r == handlers[h] IN
        (r.action = "read" /\ r.pc = "done" /\ r.source_id \notin DOMAIN OPEN_SOURCES) =>
            /\ r.status \in 400 .. 499
            /\ Len(r.out) = 1
            /\ "error" \in DOMAIN r.out[1]
            /\ r.out[1].error # <<>>
            /\ r.calls = {}

\* a proxied open that went through, as its response shows it
OpenedProxied(r) == IsOpen(r) /\ r.pc = "done" /\ Outcome(r) = "Proxied"

\* C3: the step of a proxied open that completes returns a source_id that was
\* not a key of the registry before and is one after, bound to the source
\* object this request got from the catalog (a new object of the requested
\* entry) and ran discover() on.
C3_ProxiedOpenRegisters ==
    [][\A h \in Handlers :
         (handlers'[h] # handlers[h] /\ OpenedProxied(handlers'[h])) =>
            LET r == handlers'[h]
                sid == r.out[1].source_id
            IN  /\ sid \notin DOMAIN OPEN_SOURCES
                /\ sid \in DOMAIN OPEN_SOURCES'
                /\ OPEN_SOURCES'[sid].source = r.source
                /\ r.source \notin DOMAIN sources
                /\ r.source \in DOMAIN sources'
                /\ sources'[r.source] = [name |-> r.name, discovered |-> TRUE]
                /\ {"get", "discover"} \subseteq r.calls]_vars

C3_Witness ==
    \E h \in Handlers :
        /\ OpenedProxied(handlers[h])
        /\ handlers[h].out[1].source_id \in DOMAIN OPEN_SOURCES
        /\ Len(returned) = 2

\* C4: no step removes a registry entry or rebinds a registered id, and the
\* source object it is bound to stays the same; a read of a registered id
\* gets that entry.
C4_SessionsAreStable ==
    [][/\ \A id \in DOMAIN OPEN_SOURCES :
            /\ id \in DOMAIN OPEN_SOURCES'
            /\ OPEN_SOURCES'[id] = OPEN_SOURCES[id]
            /\ OPEN_SOURCES[id].source \in DOMAIN sources'
            /\ sources'[OPEN_SOURCES[id].source] = sources[OPEN_SOURCES[id].source]
       /\ \A h \in Handlers :
            LET r == handlers'[h] IN
            (r.action = "read" /\ r.source_id \in DOMAIN OPEN_SOURCES') =>
                r.state = OPEN_SOURCES'[r.source_id]]_vars

C4_Witness ==
    /\ Len(returned) = 2
    /\ \E h \in Handlers :
        LET r == handlers[h] IN
        /\ r.action = "read" /\ r.pc = "done" /\ r.exc = NoExc
        /\ r.state = ClientState(returned[1].source_id, returned[1].source)

\* C5: the source_ids the proxied opens returned are pairwise distinct, the
\* registry holds as many entries as proxied opens completed, and each
\* returned id is bound to the source of the open that returned it.
C5_NoRegistrationLost ==
    /\ \A i, j \in 1 .. Len(returned) :
            i # j => returned[i].source_id # returned[j].source_id
    /\ Cardinality(DOMAIN OPEN_SOURCES) = Len(returned)
    /\ \A i \in 1 .. Len(returned) :
            /\ returned[i].source_id \in DOMAIN OPEN_SOURCES
            /\ OPEN_SOURCES[returned[i].source_id] =
                    ClientState(returned[i].source_id, returned[i].source)
            /\ \A j \in 1 .. Len(returned) : i # j => returned[i].source # returned[j].source

C5_Witness ==
    /\ Len(returned) = 2
    /\ \E h \in Handlers : handlers[h].action = "read" /\ handlers[h].pc = "flushing"

\* C6: the step of an open that resolves to Direct or Rejected (by the truth
\* table or by its response) leaves the registry and the source objects as
\* they were and calls neither Catalog.get nor discover().
C6_DirectAndRejectedOpenNothing ==
    [][\A h \in Handlers :
         LET r == handlers'[h] IN
         (handlers'[h] # handlers[h] /\ IsOpen(r)
            /\ (Expected(r) \in {"Direct", "Rejected"} \/ Outcome(r) \in {"Direct", "Rejected"})) =>
                /\ OPEN_SOURCES' = OPEN_SOURCES
                /\ sources' = sources
                /\ returned' = returned
                /\ r.calls \cap {"get", "discover"} = {}
                /\ r.source = 0]_vars

C6_Witness ==
    /\ Len(returned) = 1
    /\ \E h \in Handlers :
        LET r == handlers[h] IN
        /\ IsOpen(r) /\ r.pc = "done" /\ Outcome(r) = "Direct"
        /\ Catalog[r.name].direct_access = "allow"

\* the positions of the registered names in a list
RegisteredAt(accepted, registry) == {i \in 1 .. Len(accepted) : accepted[i] \in DOMAIN registry}
Greatest(S) == CHOOSE i \in S : \A j \in S : j <= i

\* C7: the format encoder chosen is the registry entry of the last registered
\* element of accepted_formats; with no registered element the selection fails
\* with a 400 error saying no compatible format was found.
C7_LastFormatWins ==
    picked.called =>
        LET at == RegisteredAt(picked.accepted_formats, format_registry) IN
        IF at = {}
        THEN /\ picked.result.exc.type = "HTTPError"
             /\ picked.result.exc.status_code = 400
             /\ picked.result.exc.reason = <<"Unable to find compatible format">>
        ELSE /\ picked.result.exc = NoExc
             /\ picked.result.encoder.format_name =
                    format_registry[picked.accepted_formats[Greatest(at)]].name

C7_Witness ==
    /\ picked.called
    /\ picked.accepted_formats = <<"fa", "fb">>
    /\ picked.result.encoder.format_name = "fb"

\* C8: whenever a format is found the selection succeeds whatever
\* accepted_compression is, and the compressor is the registry entry of its
\* last registered element, or the identity compressor when it has none or
\* is left out of the request.
C8_CompressionNeverFails ==
    picked.called =>
        LET accepted == IF picked.accepted_compression = Omitted
                        THEN <<>> ELSE picked.accepted_compression
            at == RegisteredAt(accepted, compression_registry)
        IN  RegisteredAt(picked.accepted_formats, format_registry) # {} =>
                /\ picked.result.exc = NoExc
                /\ picked.result.encoder.compressor_name =
                      IF at = {} THEN NoneCompressor.name
                      ELSE compression_registry[accepted[Greatest(at)]].name

C8_Witness ==
    /\ picked.called
    /\ picked.accepted_formats = <<"fa">>
    /\ picked.accepted_compression = <<"cx">>
    /\ picked.result.exc = NoExc
    /\ picked.result.encoder.compressor_name = "none"

\* a read that got its session and its encoder and whose response is a stream
IsStream(r) == r.action = "read" /\ r._chunk_encoder # NoEncoder /\ r.status = 200

\* the number of chunks the iteration of a read produces
StreamLength(r) ==
    IF r.partition = NoPartition
    THEN Catalog[sources[OPEN_SOURCES[r.source_id].source].name].npartitions
    ELSE 1

\* C9: the frames of a read are the chunks of its iteration, one frame per
\* chunk, in iteration order (partition 0, 1, ... of a whole-source read),
\* none dropped or repeated, all of them once the read has finished without
\* an error; and at most the last frame written is not covered by a completed
\* flush: frame N+1 is written only after the flush of frame N is complete.
C9_FramesInOrder ==
    \A h \in Handlers :
        LET r == handlers[h] IN
        IsStream(r) =>
            /\ Len(r.out) <= StreamLength(r)
            /\ \A i \in 1 .. Len(r.out) :
                  /\ "data" \in DOMAIN r.out[i]
                  /\ r.out[i].data.chunk.part =
                        (IF r.partition = NoPartition THEN i - 1 ELSE r.partition)
            /\ r.exc = NoExc => Len(r.out) + Len(r._iterator) = StreamLength(r)
            /\ (r.pc = "done" /\ r.exc = NoExc) => Len(r.out) = StreamLength(r)
            /\ Len(r.out) - r.flushed <= 1
            /\ r.pc \in {"runnable", "done"} => r.flushed = Len(r.out)

C9_Witness ==
    \E h \in Handlers :
        LET r == handlers[h] IN
        /\ IsStream(r) /\ r.pc = "done" /\ r.exc = NoExc
        /\ r.partition = NoPartition
        /\ Len(r.out) = 2 /\ r.flushed = 2

\* the names a read's accepted lists select
ExpectedFormat(accepts) ==
    format_registry[accepts.accepted_formats[
        Greatest(RegisteredAt(accepts.accepted_formats, format_registry))]].name
ExpectedCompression(accepts) ==
    LET accepted == IF accepts.accepted_compression = Omitted
                    THEN <<>> ELSE accepts.accepted_compression
        at == RegisteredAt(accepted, compression_registry)
    IN  IF at = {} THEN "none" ELSE compression_registry[accepted[Greatest(at)]].name

\* C10: every frame of a read, whatever else is in flight, holds a chunk of
\* the source registered under the read's own source_id, tagged with that
\* source's container and encoded with the format and compression that the
\* read's own accepted lists select.
C10_StreamsDoNotMix ==
    \A h \in Handlers :
        LET r == handlers[h] IN
        IsStream(r) =>
            \A i \in 1 .. Len(r.out) :
                LET frame == r.out[i]
                    own == OPEN_SOURCES[r.source_id].source
                IN  /\ frame.data.chunk.src = own
                    /\ frame.container = Catalog[sources[own].name].container
                    /\ frame.data.container = frame.container
                    /\ frame.format = ExpectedFormat(r.accepts)
                    /\ frame.compression = ExpectedCompression(r.accepts)
                    /\ frame.data.serialized_by = frame.format
                    /\ frame.data.compressed_by = frame.compression

C10_Witness ==
    \E h1, h2 \in Handlers :
        LET r1 == handlers[h1]
            r2 == handlers[h2]
        IN  /\ h1 # h2
            /\ IsStream(r1) /\ IsStream(r2)
            /\ r1.source_id # r2.source_id
            /\ r1._chunk_encoder # r2._chunk_encoder
            /\ r1.pc = "flushing" /\ r2.pc = "runnable"
            /\ Len(r1.out) = 2 /\ Len(r2.out) = 1

\* C11: all frames of one read carry the same format name and the same
\* compression name, those of the encoder picked at the start of the read,
\* whatever other reads are in flight.
C11_EncodingFixedPerRead ==
    \A h \in Handlers :
        LET r == handlers[h] IN
        IsStream(r) =>
            \A i, j \in 1 .. Len(r.out) :
                /\ r.out[i].format = r.out[j].format
                /\ r.out[i].compression = r.out[j].compression
                /\ r.out[i].data.serialized_by = r.out[j].data.serialized_by
                /\ r.out[i].data.compressed_by = r.out[j].data.compressed_by

C11_Witness ==
    \E h1, h2 \in Handlers :
        LET r1 == handlers[h1]
            r2 == handlers[h2]
        IN  /\ h1 # h2
            /\ IsStream(r1) /\ IsStream(r2)
            /\ Len(r1.out) = 2 /\ Len(r2.out) = 2
            /\ r1.out[1].format # r2.out[1].format
            /\ r1.out[1].compression # r2.out[1].compression

\* the messages of a response that are {error: ...}
ErrorsIn(r) == {i \in 1 .. Len(r.out) : "error" \in DOMAIN r.out[i]}

\* C12: when the source or the encoder raises while a chunk of a read is
\* produced, the frames written before are all flushed to the client, and the
\* client is told of the failure: the status is an error status, or an
\* {error: ...} message ends the response.
C12_ReadFailureIsReported ==
    \A h \in Handlers :
        LET r == handlers[h] IN
        (r.action = "read" /\ r.pc = "done" /\ r.exc.type = "UpstreamError") =>
            /\ r.flushed = Len(r.out)
            /\ r.status >= 400 \/ ErrorsIn(r) # {}

\* C13: every request that fails ends with exactly one {error: message}, the
\* last message of its response, with a message that is not empty, on a
\* status of 400 or above.
C13_FailuresAreErrorPayloads ==
    \A h \in Handlers :
        LET r == handlers[h] IN
        (r.pc = "done" /\ r.exc # NoExc) =>
            /\ r.status >= 400
            /\ ErrorsIn(r) = {Len(r.out)}
            /\ Len(r.out) >= 1
            /\ r.out[Len(r.out)].error # <<>>

\* C14: a read with a partition (0 included) calls read_partition and never
\* read_chunked, writes at most one frame, and when it finishes without an
\* error exactly one, the encoding of that partition's chunk of its source;
\* a read without a partition calls read_chunked and never read_partition.
C14_PartitionReadsOneChunk ==
    \A h \in Handlers :
        LET r == handlers[h] IN
        (r.action = "read" /\ r._chunk_encoder # NoEncoder) =>
            IF r.partition # NoPartition
            THEN /\ r.calls = {"read_partition"}
                 /\ Len(r.out) <= 1
                 /\ (r.pc = "done" /\ r.exc = NoExc) =>
                       LET own == OPEN_SOURCES[r.source_id].source IN
                       /\ Len(r.out) = 1
                       /\ r.out[1].data = encode(r._chunk_encoder,
                                                 [src |-> own, part |-> r.partition],
                                                 Catalog[sources[own].name].container)
            ELSE r.calls = {"read_chunked"}

C14_Witness ==
    \E h \in Handlers :
        LET r == handlers[h] IN
        /\ r.action = "read" /\ r.pc = "done" /\ r.exc = NoExc
        /\ r.partition = 0
        /\ Catalog[sources[r.state.source].name].npartitions = 2
        /\ Len(r.out) = 1

\* C15: the step of a request whose action is neither open nor read answers
\* it at once with status 400 and one {error: message} whose message holds
\* the action; no catalog or source method is called, no frame is written and
\* the registry is as before.
C15_InvalidActionIsRejected ==
    [][\A h \in Handlers :
         LET r == handlers'[h] IN
         (handlers'[h] # handlers[h] /\ r.action \notin {"", "open", "read"}) =>
            /\ r.pc = "done"
            /\ r.status = 400
            /\ Len(r.out) = 1
            /\ ErrorsIn(r) = {1}
            /\ \E i \in 1 .. Len(r.out[1].error) : r.out[1].error[i] = r.action
            /\ r.calls = {}
            /\ OPEN_SOURCES' = OPEN_SOURCES
            /\ sources' = sources
            /\ returned' = returned]_vars

C15_Witness ==
    /\ Len(returned) = 1
    /\ \E h \in Handlers :
        /\ handlers[h].action = "close" /\ handlers[h].pc = "done"
        /\ handlers[h].status = 400

\* C16: an open of a force entry by a client without the entry's plugin is
\* answered with status 400 and one {error: message} whose message holds both
\* the plugin and the name of the source.
C16_RejectionNamesPluginAndSource ==
    \A h \in Handlers :
        LET r == handlers[h] IN
        (IsOpen(r) /\ Catalog[r.name].direct_access = "force"
                   /\ Catalog[r.name].plugin \notin r.client_plugins) =>
            /\ r.pc = "done"
            /\ r.status = 400
            /\ Len(r.out) = 1
            /\ ErrorsIn(r) = {1}
            /\ \E i \in 1 .. Len(r.out[1].error) : r.out[1].error[i] = Catalog[r.name].plugin
            /\ \E i \in 1 .. Len(r.out[1].error) : r.out[1].error[i] = r.name

C16_Witness ==
    \E h \in Handlers :
        LET r == handlers[h] IN
        /\ IsOpen(r) /\ r.pc = "done" /\ r.name = "e_force"
        /\ r.client_plugins = {"p1"}
        /\ r.status = 400

\* a read that is streaming
Streaming(h) == IsStream(handlers[h]) /\ handlers[h].pc \in {"flushing", "runnable"}

\* C17: under fairness, a read that is streaming is eventually finished with
\* all it wrote flushed; and nothing is added to a finished response.
C17_ReadTerminates ==
    /\ \A h \in Handlers :
          Streaming(h) ~> (handlers[h].pc = "done" /\ handlers[h].flushed = Len(handlers[h].out))
    /\ [][\A h \in Handlers :
            (handlers[h].pc = "done" /\ handlers[h].out # <<>>) =>
                Len(handlers'[h].out) <= Len(handlers[h].out)]_vars

C17_Witness ==
    \E h \in Handlers :
        LET r == handlers[h] IN
        /\ IsStream(r) /\ r.pc = "done" /\ r.exc = NoExc
        /\ r.partition = NoPartition
        /\ Len(r.out) = 2 /\ r.flushed = 2 /\ r._iterator = <<>>

\* C18: a read in progress has, in what it wrote followed by what its
\* iterator still holds, exactly the chunks of one iteration of its source
\* from the start (read_chunked or read_partition called once), whatever
\* other reads of the same session did or do; and the session entry is as it
\* was registered.
C18_EachReadIteratesAfresh ==
    \A h \in Handlers :
        LET r == handlers[h] IN
        (IsStream(r) /\ r.exc = NoExc) =>
            LET own == OPEN_SOURCES[r.source_id].source
                n == Catalog[sources[own].name].npartitions
                whole == IF r.partition = NoPartition
                         THEN [i \in 1 .. n |-> [src |-> own, part |-> i - 1]]
                         ELSE <<[src |-> own, part |-> r.partition]>>
                written == [i \in 1 .. Len(r.out) |-> r.out[i].data.chunk]
            IN  /\ written \o r._iterator = whole
                /\ Cardinality(r.calls) = 1
                /\ OPEN_SOURCES[r.source_id] = ClientState(r.source_id, own)
                /\ r.state = OPEN_SOURCES[r.source_id]

C18_Witness ==
    \E h1, h2 \in Handlers :
        LET r1 == handlers[h1]
            r2 == handlers[h2]
        IN  /\ h1 # h2
            /\ IsStream(r1) /\ IsStream(r2)
            /\ r1.source_id = r2.source_id
            /\ r1.partition = NoPartition /\ r2.partition = NoPartition
            /\ r1.pc = "done" /\ r1.exc = NoExc /\ Len(r1.out) = 2
            /\ r2.pc = "flushing" /\ Len(r2.out) = 1

\* C19: the step of a proxied open in which Catalog.get or discover() raises
\* leaves the registry, the source objects and the returned ids as they were,
\* and its response holds no source_id.
C19_FailedOpenRegistersNothing ==
    [][\A h \in Handlers :
         LET r == handlers'[h] IN
         (handlers'[h] # handlers[h] /\ IsOpen(r) /\ r.exc.type = "UpstreamError") =>
            /\ "get" \in r.calls
            /\ OPEN_SOURCES' = OPEN_SOURCES
            /\ sources' = sources
            /\ returned' = returned
            /\ r.source_id = 0
            /\ \A i \in 1 .. Len(r.out) : "source_id" \notin DOMAIN r.out[i]]_vars

C19_Witness ==
    /\ Len(returned) = 1
    /\ \E h \in Handlers :
        LET r == handlers[h] IN
        /\ IsOpen(r) /\ r.pc = "done" /\ r.exc.type = "UpstreamError"
        /\ "discover" \in r.calls

\* C20: a read of a registered session none of whose accepted formats is
\* registered is finished with the 400 format error and nothing else: neither
\* read_partition nor read_chunked was called and no frame was written.
C20_FormatFailureBeforeData ==
    \A h \in Handlers :
        LET r == handlers[h] IN
        (r.action = "read" /\ r.state # NoState
            /\ RegisteredAt(r.accepts.accepted_formats, format_registry) = {}) =>
            /\ r.pc = "done"
            /\ r.status = 400
            /\ r.out = <<[error |-> <<"Unable to find compatible format">>]>>
            /\ r.calls = {}
            /\ r._iterator = <<>>
            /\ r.state = OPEN_SOURCES[r.source_id]

C20_Witness ==
    \E h \in Handlers :
        LET r == handlers[h] IN
        /\ r.action = "read" /\ r.pc = "done" /\ r.state # NoState
        /\ r.accepts.accepted_formats = <<"fx">>
        /\ r.status = 400

====
